---- MODULE Spec2Model ----
(***************************************************************************)
(* Model of the Veo prompt generator: the request construction and the     *)
(* response validation of generateVeoPrompt (services/geminiService), and  *)
(* the form that calls it (App): its entry lists, its reference image and  *)
(* its generate button.                                                    *)
(*                                                                         *)
(* A JavaScript string is a sequence of symbols.  A symbol is one          *)
(* character of user text (" ", "\n", "a", ...) or one fixed fragment of   *)
(* a literal of the source ("ACTION TIMELINE:", " sec: ", ...);            *)
(* concatenation and template literals are \o, the empty string is <<>>.   *)
(* The en dash of the timeline template is written "EN DASH".              *)
(***************************************************************************)
EXTENDS Naturals, Sequences, FiniteSets, Bags, TLC

(***************************************************************************)
(* Bounds of the model                                                     *)
(***************************************************************************)
MaxEntries == 2
\* The FileReaders pending, and the handleGenerate invocations suspended, at
\* one time.
MaxReaders == 2
MaxInFlight == 2

(***************************************************************************)
(* Strings                                                                 *)
(***************************************************************************)
\* The characters String.prototype.trim strips (white space and line
\* terminators) that occur in the modelled inputs.
Whitespace == {" ", "\n"}

RECURSIVE trimStart(_)
trimStart(s) ==
  IF s # <<>> /\ Head(s) \in Whitespace THEN trimStart(Tail(s)) ELSE s

RECURSIVE trimEnd(_)
trimEnd(s) ==
  IF s # <<>> /\ s[Len(s)] \in Whitespace
    THEN trimEnd(SubSeq(s, 1, Len(s) - 1))
    ELSE s

trim(s) == trimEnd(trimStart(s))

\* JavaScript truthiness of a string: every string but the empty one.
Truthy(s) == s # <<>>

\* s || d on strings.
OrDefault(s, d) == IF Truthy(s) THEN s ELSE d

RECURSIVE join(_, _)
join(lines, sep) ==
  IF lines = <<>> THEN <<>>
  ELSE IF Len(lines) = 1 THEN lines[1]
  ELSE lines[1] \o sep \o join(Tail(lines), sep)

startsWith(s, c) == s # <<>> /\ s[1] = c

(***************************************************************************)
(* Literals of the source                                                  *)
(***************************************************************************)
Automatic == <<"A", "u", "t", "o", "m", "a", "t", "i", "c">>
MissingKeyMessage ==
  <<"API key is missing. Please set the API_KEY environment variable.">>
InputRequiredMessage ==
  <<"Action timeline, dialogue timeline, or an image is required.">>
InvalidJsonMessage == <<"The API did not return a valid JSON format.">>
FailedPrefix == <<"Failed to generate prompt: ">>
UnknownErrorMessage ==
  <<"An unknown error occurred while generating the prompt.">>
UnexpectedErrorMessage == <<"An unexpected error occurred.">>
InvalidFileTypeMessage ==
  <<"Invalid file type. Please select a PNG, JPG, or WEBP image.">>
FailedReadMessage == <<"Failed to read image file.">>
ImageCaption ==
  <<"The user has provided the above image as a visual reference.">>
ActionLabel == <<"ACTION TIMELINE:", "\n">>
DialogueLabel == <<"DIALOGUE TIMELINE (IN INDONESIAN):", "\n">>
CameraLabel == <<"CAMERA MOVEMENT PREFERENCE: ">>
ToneLabel == <<"TONE PREFERENCE: ">>

(***************************************************************************)
(* Request parts                                                           *)
(***************************************************************************)
TextPart(t) == [text |-> t]
InlineDataPart(img) ==
  [inlineData |-> [mimeType |-> img.mimeType, data |-> img.data]]

\* `if (image)`: an optional object; undefined is the only falsy value.
NoImage == [defined |-> FALSE, data |-> <<>>, mimeType |-> <<>>]
imagePresent(image) == image.defined

\* Faulty variant: the description is tested without trimming it.
actionIsValidUntrimmed(a) == Truthy(a.description)

actionIsValid(a) == Truthy(trim(a.description))
dialogueIsValid(d) == Truthy(trim(d.dialogueText))

hasValidAction(actions) ==
  \E i \in 1..Len(actions) : actionIsValid(actions[i])
hasValidDialogue(timedDialogues) ==
  \E i \in 1..Len(timedDialogues) : dialogueIsValid(timedDialogues[i])

actionLine(a) ==
  <<"- ">> \o OrDefault(a.startTime, <<"0">>) \o <<"EN DASH">>
    \o OrDefault(a.endTime, <<"?">>) \o <<" sec: ">> \o trim(a.description)

dialogueLine(d) ==
  <<"- ">> \o OrDefault(d.startTime, <<"0">>) \o <<"EN DASH">>
    \o OrDefault(d.endTime, <<"?">>) \o <<" sec: ">>
    \o <<"\"">> \o trim(d.dialogueText) \o <<"\"">>

\* filter (SelectSeq keeps, in order, the entries that pass), map, join.
timeline(actions) ==
  LET valid == SelectSeq(actions, actionIsValid)
  IN join([i \in 1..Len(valid) |-> actionLine(valid[i])], <<"\n">>)

dialogueTimeline(timedDialogues) ==
  LET valid == SelectSeq(timedDialogues, dialogueIsValid)
  IN join([i \in 1..Len(valid) |-> dialogueLine(valid[i])], <<"\n">>)

\* Faulty variant: the preference is trimmed before it is tested.
preferenceGivenTrimmed(value) ==
  Truthy(trim(value)) /\ trim(value) # Automatic

preferenceGiven(value) == Truthy(value) /\ value # Automatic

imageParts(image) ==
  IF imagePresent(image)
    THEN <<InlineDataPart(image), TextPart(ImageCaption)>>
    ELSE <<>>

actionParts(actions) ==
  IF hasValidAction(actions)
    THEN <<TextPart(ActionLabel \o timeline(actions))>>
    ELSE <<>>

dialogueParts(timedDialogues) ==
  IF hasValidDialogue(timedDialogues)
    THEN <<TextPart(DialogueLabel \o dialogueTimeline(timedDialogues))>>
    ELSE <<>>

cameraParts(cameraMovement) ==
  IF preferenceGiven(cameraMovement)
    THEN <<TextPart(CameraLabel \o cameraMovement)>>
    ELSE <<>>

toneParts(tone) ==
  IF preferenceGiven(tone) THEN <<TextPart(ToneLabel \o tone)>> ELSE <<>>

\* Faulty variant: the dialogue block is pushed before the action block.
buildPartsDialogueFirst(in) ==
  imageParts(in.image) \o dialogueParts(in.timedDialogues)
    \o actionParts(in.actions)
    \o cameraParts(in.cameraMovement) \o toneParts(in.tone)

\* The parts array as it stands when the request is issued.
buildParts(in) ==
  imageParts(in.image) \o actionParts(in.actions)
    \o dialogueParts(in.timedDialogues)
    \o cameraParts(in.cameraMovement) \o toneParts(in.tone)

(***************************************************************************)
(* The response schema and JSON texts                                      *)
(*                                                                         *)
(* A JSON text is a string over the symbols "{", "}", "[", "]", ",",       *)
(* white space, member symbols and scalar symbols.  A member symbol is a   *)
(* field name of the schema and stands for one well-formed member          *)
(* "name": value; the scalar symbol "1" stands for one well-formed value.  *)
(***************************************************************************)
requiredFields ==
  <<"prompt", "keyword", "style", "tone", "camera", "motion", "angle",
    "lens", "lighting", "audio", "setting", "place", "time", "characters",
    "plot_point", "duration_second", "aspect_ratio", "negative_prompt">>

JsonWhitespace == {" ", "\n"}
JsonMembers == {requiredFields[i] : i \in 1..Len(requiredFields)}
JsonScalars == {"1"}

closeOf(open) == IF open = "{" THEN "}" ELSE "]"
itemsOf(open) == IF open = "{" THEN JsonMembers ELSE JsonScalars

\* The messages of the SyntaxError JSON.parse throws.
UnexpectedEndMessage == <<"Unexpected end of JSON input">>
UnexpectedTokenMessage == <<"Unexpected token in JSON">>

parseOk(open, items) ==
  [ok |-> TRUE, open |-> open, items |-> items, message |-> <<>>]
parseError(message) ==
  [ok |-> FALSE, open |-> "", items |-> <<>>, message |-> message]

\* The elements of seq at the indices idx, in order.
pick(seq, idx) ==
  [k \in 1..Cardinality(idx) |->
     seq[CHOOSE i \in idx : Cardinality({j \in idx : j < i}) = k - 1]]

\* An object keeps one member per name, at the place of its first occurrence.
dedupe(items) ==
  pick(items,
       {i \in 1..Len(items) : \A j \in 1..(i - 1) : items[j] # items[i]})

\* The grammar, on the text t without its white space: an opening bracket,
\* items separated by commas, the matching closing bracket, and nothing more.
acceptable(t, i) ==
  IF i = 1 THEN t[1] \in {"{", "["}
  ELSE IF i % 2 = 0
    THEN t[i] \in itemsOf(t[1]) \/ (i = 2 /\ t[i] = closeOf(t[1]))
  ELSE t[i] \in {",", closeOf(t[1])}

\* JSON.parse: the value, or the SyntaxError of the first offending place.
JSONparse(text) ==
  LET t == SelectSeq(text, LAMBDA c : c \notin JsonWhitespace)
      stops == {i \in 1..Len(t) :
                  ~acceptable(t, i) \/ (i > 1 /\ t[i] = closeOf(t[1]))}
  IN IF stops = {} THEN parseError(UnexpectedEndMessage)
     ELSE LET stop == CHOOSE i \in stops : \A j \in stops : i <= j
              items == pick(t, {i \in 2..(stop - 1) : i % 2 = 0})
          IN IF ~acceptable(t, stop) \/ stop < Len(t)
               THEN parseError(UnexpectedTokenMessage)
               ELSE parseOk(t[1], IF t[1] = "{" THEN dedupe(items) ELSE items)

indentItem(item) == <<" ", " ", item>>

\* JSON.stringify(value, null, 2)
JSONstringify(value) ==
  IF value.items = <<>>
    THEN <<value.open, closeOf(value.open)>>
    ELSE <<value.open, "\n">>
           \o join([i \in 1..Len(value.items) |-> indentItem(value.items[i])],
                   <<",", "\n">>)
           \o <<"\n", closeOf(value.open)>>

(***************************************************************************)
(* The body of generateVeoPrompt after the request is issued               *)
(***************************************************************************)
\* What the awaited generateContent call delivers: a response text, an Error
\* (network, authentication, quota) or a rejection with some other value.
textReply(t) == [kind |-> "text", text |-> t, message |-> <<>>]
errorReply(m) == [kind |-> "error", text |-> <<>>, message |-> m]
otherReply == [kind |-> "other", text |-> <<>>, message |-> <<>>]

\* Faulty variant: any non-empty text is taken for JSON.
looksNonEmpty(jsonString) == Truthy(jsonString)

looksLikeJson(jsonString) ==
  startsWith(jsonString, "{") \/ startsWith(jsonString, "[")

returned(value, handed) ==
  [returns |-> TRUE, value |-> value, isError |-> FALSE, handed |-> handed]
thrown(isError, message, handed) ==
  [returns |-> FALSE, value |-> message, isError |-> isError,
   handed |-> handed]

\* The try block; handed is what was given to JSON.parse.
tryBlock(reply) ==
  IF reply.kind = "error" THEN thrown(TRUE, reply.message, <<>>)
  ELSE IF reply.kind = "other" THEN thrown(FALSE, <<>>, <<>>)
  ELSE IF ~looksLikeJson(reply.text)
    THEN thrown(TRUE, InvalidJsonMessage, <<>>)
  ELSE LET parsedJson == JSONparse(reply.text) IN
    IF parsedJson.ok
      THEN returned(JSONstringify(parsedJson), <<reply.text>>)
      ELSE thrown(TRUE, parsedJson.message, <<reply.text>>)

\* Faulty variant: the message of the error is passed on without the prefix.
catchBlockUnprefixed(error) ==
  IF error.isError THEN error.value ELSE UnknownErrorMessage

\* The catch block: the value the promise is rejected with, a plain string.
catchBlock(error) ==
  IF error.isError THEN FailedPrefix \o error.value ELSE UnknownErrorMessage

(***************************************************************************)
(* The promise generateVeoPrompt returns                                   *)
(***************************************************************************)
noPromise == [state |-> "none", value |-> <<>>, isError |-> FALSE]
pending == [state |-> "pending", value |-> <<>>, isError |-> FALSE]
fulfilled(value) == [state |-> "fulfilled", value |-> value, isError |-> FALSE]
\* Rejected with new Error(message).
rejectedWithError(message) ==
  [state |-> "rejected", value |-> message, isError |-> TRUE]
\* Rejected with a string.
rejectedWithString(value) ==
  [state |-> "rejected", value |-> value, isError |-> FALSE]

(***************************************************************************)
(* Inputs of the model                                                     *)
(***************************************************************************)
SeqsUpTo(S, n) == UNION {[1..k -> S] : k \in 0..n}

\* process.env.API_KEY: unset, set to the empty string, or set to a key.
UnsetKey == [set |-> FALSE, value |-> <<>>]
EmptyKey == [set |-> TRUE, value |-> <<>>]
SomeKey == [set |-> TRUE, value |-> <<"k", "e", "y">>]
EnvKeys == {UnsetKey, EmptyKey, SomeKey}

\* Faulty variant: only an unset variable counts as a missing key.
keyUnset(key) == ~key.set

\* !process.env.API_KEY
keyMissing(key) == ~key.set \/ ~Truthy(key.value)

\* A whitespace-only description, a one-line description to be trimmed, and
\* a description of two lines (the description is edited in a textarea).
ActionPool ==
  { [startTime |-> <<"1">>, endTime |-> <<>>, description |-> <<" ">>],
    [startTime |-> <<"5">>, endTime |-> <<"7">>,
     description |-> <<" ", "g", "o">>],
    [startTime |-> <<>>, endTime |-> <<>>,
     description |-> <<"u", "p", "\n", "t", "o">>] }

\* The entry the form is seeded with, and a one-line dialogue to be trimmed.
DialoguePool ==
  { [startTime |-> <<>>, endTime |-> <<>>, dialogueText |-> <<>>],
    [startTime |-> <<>>, endTime |-> <<"2">>,
     dialogueText |-> <<"y", "a", " ">>] }

SomeImage ==
  [defined |-> TRUE, data |-> <<"Q", "U", "I", "=">>,
   mimeType |-> <<"image/png">>]
Images == {NoImage, SomeImage}

Preferences ==
  {<<>>, Automatic, <<" ">> \o Automatic, <<"S", "t", "a", "t", "i", "c">>}

Inputs ==
  [actions : SeqsUpTo(ActionPool, MaxEntries),
   timedDialogues : SeqsUpTo(DialoguePool, MaxEntries),
   image : Images,
   cameraMovement : Preferences,
   tone : Preferences]

\* The compact JSON text of an object with the given members.
objectText(fields) ==
  <<"{">> \o join([i \in 1..Len(fields) |-> <<fields[i]>>], <<",">>)
    \o <<"}">>

\* A response with all the required fields, one without aspect_ratio, an
\* object with a repeated member, an empty object, an array, a truncated
\* object, an object with a trailing comma, an array holding a member, plain
\* prose, an object after a leading space, and the empty text.

ResponseTexts ==
  { objectText(requiredFields),
    objectText(SelectSeq(requiredFields, LAMBDA f : f # "aspect_ratio")),
    <<"{", "prompt", ",", "prompt", "}">>,
    <<"{", "}", "\n">>,
    <<"[", "1", "]">>,
    <<"{", "prompt">>,
    <<"{", "prompt", ",", "}">>,
    <<"[", "prompt", "]">>,
    <<"n", "o", "t", " ", "j", "s", "o", "n">>,
    <<" ", "{", "}">>,
    <<>> }

TransportMessages == {<<"fetch failed">>, <<"API key not valid">>}

Replies ==
  {textReply(t) : t \in ResponseTexts}
    \cup {errorReply(m) : m \in TransportMessages}
    \cup {otherReply}

(***************************************************************************)
(* State                                                                   *)
(***************************************************************************)
VARIABLES
  envKey,     \* process.env.API_KEY
  clientKey,  \* the apiKey the client `ai` was constructed with
  pc,         \* "idle", "awaiting" (suspended in generateContent), "settled"
  input,      \* the argument of the current invocation
  requests,   \* the generateContent requests the current invocation issued
  reply,      \* what generateContent delivered to the current invocation
  parsed,     \* the texts the current invocation handed to JSON.parse
  promise     \* the promise the current invocation returned

\* The state of the App component (React state and pending callbacks).
VARIABLES
  actions,        \* useState: the action entries of the form
  timedDialogues, \* useState: the dialogue entries of the form
  generatedJson,  \* useState: the result shown, '' when none
  isLoading,      \* useState
  error,          \* useState: the error shown, '' when none
  imageBase64,    \* useState: null or the data of the reference image
  imageMimeType,  \* useState: null or the type of the reference image
  readers,        \* the bag of the files whose FileReader has not completed
  inFlight,       \* the handleGenerate invocations suspended at their await
  latestImage     \* history: the user's latest image action (no code reads it)

serviceVars ==
  <<envKey, clientKey, pc, input, requests, reply, parsed, promise>>
appVars ==
  <<actions, timedDialogues, generatedJson, isLoading, error, imageBase64,
    imageMimeType, readers, inFlight, latestImage>>
vars == <<serviceVars, appVars>>

emptyAction == [startTime |-> <<>>, endTime |-> <<>>, description |-> <<>>]
emptyDialogue == [startTime |-> <<>>, endTime |-> <<>>, dialogueText |-> <<>>]
\* event.target.files is empty.
noFile == [type |-> <<>>, data |-> <<>>]

\* A value of type string | null.
null == [isNull |-> TRUE, value |-> <<>>]
string(s) == [isNull |-> FALSE, value |-> s]

\* The first render of App: the values given to useState.
mount ==
  /\ actions = <<emptyAction>>
  /\ timedDialogues = <<emptyDialogue>>
  /\ generatedJson = <<>>
  /\ isLoading = FALSE
  /\ error = <<>>
  /\ imageBase64 = null
  /\ imageMimeType = null
  /\ readers = EmptyBag
  /\ inFlight = 0
  /\ latestImage = [kind |-> "none", file |-> noFile]

noInput ==
  [actions |-> <<>>, timedDialogues |-> <<>>, image |-> NoImage,
   cameraMovement |-> <<>>, tone |-> <<>>]
noReply == [kind |-> "none", text |-> <<>>, message |-> <<>>]

\* Module load: the client is constructed with the key of that moment.
Init ==
  /\ envKey \in EnvKeys
  /\ clientKey = envKey
  /\ pc = "idle"
  /\ input = noInput
  /\ requests = <<>>
  /\ reply = noReply
  /\ parsed = <<>>
  /\ promise = noPromise
  /\ mount

\* Faulty variant: the lists are tested for emptiness, not their entries.
inputMissingNoEntries(in) ==
  /\ in.actions = <<>>
  /\ in.timedDialogues = <<>>
  /\ ~imagePresent(in.image)

inputMissing(in) ==
  /\ ~hasValidAction(in.actions)
  /\ ~hasValidDialogue(in.timedDialogues)
  /\ ~imagePresent(in.image)

generateContentRequest(in) ==
  [model |-> "gemini-2.5-flash", parts |-> buildParts(in),
   apiKey |-> clientKey]

\* generateVeoPrompt up to its await: the two guards, the parts, the request.
generateVeoPrompt(in) ==
  /\ pc = "idle"
  /\ input' = in
  /\ reply' = noReply
  /\ parsed' = <<>>
  /\ IF keyMissing(envKey)
       THEN /\ promise' = rejectedWithError(MissingKeyMessage)
            /\ requests' = <<>>
            /\ pc' = "settled"
     ELSE IF inputMissing(in)
       THEN /\ promise' = rejectedWithError(InputRequiredMessage)
            /\ requests' = <<>>
            /\ pc' = "settled"
     ELSE /\ promise' = pending
          /\ requests' = <<generateContentRequest(in)>>
          /\ pc' = "awaiting"
  /\ UNCHANGED <<envKey, clientKey>>
  /\ UNCHANGED appVars

settle(outcome) ==
  IF outcome.returns
    THEN fulfilled(outcome.value)
    ELSE rejectedWithString(catchBlock(outcome))

\* Faulty variant: a failed call is issued once more before giving up.
resumeRetrying(r) ==
  /\ pc = "awaiting"
  /\ IF r.kind = "error" /\ Len(requests) < 2
       THEN /\ requests' = Append(requests, requests[1])
            /\ UNCHANGED <<pc, reply, parsed, promise>>
       ELSE /\ reply' = r
            /\ parsed' = parsed \o tryBlock(r).handed
            /\ promise' = settle(tryBlock(r))
            /\ pc' = "settled"
            /\ UNCHANGED requests
  /\ UNCHANGED <<envKey, clientKey, input>>
  /\ UNCHANGED appVars

\* generateVeoPrompt from the await on: validation, pretty-printing, catch.
resume(r) ==
  /\ pc = "awaiting"
  /\ reply' = r
  /\ LET outcome == tryBlock(r) IN
       /\ parsed' = parsed \o outcome.handed
       /\ promise' = settle(outcome)
  /\ pc' = "settled"
  /\ UNCHANGED <<envKey, clientKey, input, requests>>
  /\ UNCHANGED appVars

\* The caller has consumed the settled promise; nothing of the invocation
\* remains (the function keeps no state between calls).
release ==
  /\ pc = "settled"
  /\ pc' = "idle"
  /\ input' = noInput
  /\ requests' = <<>>
  /\ reply' = noReply
  /\ parsed' = <<>>
  /\ promise' = noPromise
  /\ UNCHANGED <<envKey, clientKey>>
  /\ UNCHANGED appVars

call == pc = "idle" /\ \E in \in Inputs : generateVeoPrompt(in)

deliver == pc = "awaiting" /\ \E r \in Replies : resume(r)

Next == call \/ deliver \/ release

Spec == Init /\ [][Next]_vars

\* The process configuration changes between two invocations, while the
\* module stays loaded: the variable is unset, emptied, or set to the first
\* or to another key.
RotatedKey == [set |-> TRUE, value |-> <<"n", "e", "w">>]
configure ==
  /\ pc = "idle"
  /\ \E key \in EnvKeys \cup {RotatedKey} : envKey' = key
  /\ envKey' # envKey
  /\ UNCHANGED <<clientKey, pc, input, requests, reply, parsed, promise>>
  /\ UNCHANGED appVars

NextConfigured == call \/ deliver \/ release \/ configure

SpecConfigured == Init /\ [][NextConfigured]_vars

(***************************************************************************)
(* The App component                                                       *)
(***************************************************************************)
\* The catch clause of handleGenerate: the message set as the error for the
\* value err the awaited promise was rejected with.
handleGenerateCatch(err) ==
  IF err.isError THEN err.value ELSE UnexpectedErrorMessage

\* Truthiness of a value of type string | null.
truthy(v) == ~v.isNull /\ Truthy(v.value)

\* The texts typed into a description and into a dialogue text.
Descriptions == {<<>>, <<" ">>, <<"g", "o">>}
DialogueTexts == {<<>>, <<"y", "a", " ">>}

\* The files offered to the file input: an image, an image of no bytes, and
\* a file of a type that is not accepted.
PngFile == [type |-> <<"image/png">>, data |-> <<"Q", "U", "I", "=">>]
EmptyJpegFile == [type |-> <<"image/jpeg">>, data |-> <<>>]
GifFile == [type |-> <<"image/gif">>, data |-> <<"R", "0", "l", "G">>]
Files == {PngFile, EmptyJpegFile, GifFile}

validTypes == {<<"image/jpeg">>, <<"image/png">>, <<"image/webp">>}

\* FileReader.readAsDataURL: the result for the file.
readAsDataURL(file) ==
  <<"d", "a", "t", "a", ":">> \o file.type \o <<";", "base64", ",">>
    \o file.data

\* s.split(sep)[1]: the text between the first and the second separator,
\* undefined (falsy, as null is) when s holds no separator.
splitSecond(s, sep) ==
  LET at == {i \in 1..Len(s) : s[i] = sep}
  IN IF at = {} THEN null
     ELSE LET first == CHOOSE i \in at : \A j \in at : i <= j
              rest == {i \in at : i > first}
              next == IF rest = {} THEN Len(s) + 1
                      ELSE CHOOSE i \in rest : \A j \in rest : i <= j
          IN string(SubSeq(s, first + 1, next - 1))

\* The sequence without its element at index (filter((_, i) => i !== index)).
without(seq, index) ==
  [k \in 1..(Len(seq) - 1) |-> IF k < index THEN seq[k] ELSE seq[k + 1]]

handleActionChange(index, field, value) ==
  /\ actions' = [actions EXCEPT ![index][field] = value]
  /\ UNCHANGED <<timedDialogues, generatedJson, isLoading, error, imageBase64,
                 imageMimeType, readers, inFlight, latestImage>>
  /\ UNCHANGED serviceVars

\* The list is capped at MaxEntries entries.
addAction ==
  /\ Len(actions) < MaxEntries
  /\ actions' = Append(actions, emptyAction)
  /\ UNCHANGED <<timedDialogues, generatedJson, isLoading, error, imageBase64,
                 imageMimeType, readers, inFlight, latestImage>>
  /\ UNCHANGED serviceVars

\* Faulty variant: the entry is removed whatever the length of the list.
removeActionUnguarded(index) ==
  /\ actions' = without(actions, index)
  /\ UNCHANGED <<timedDialogues, generatedJson, isLoading, error, imageBase64,
                 imageMimeType, readers, inFlight, latestImage>>
  /\ UNCHANGED serviceVars

removeAction(index) ==
  /\ IF Len(actions) > 1
       THEN actions' = without(actions, index)
       ELSE UNCHANGED actions
  /\ UNCHANGED <<timedDialogues, generatedJson, isLoading, error, imageBase64,
                 imageMimeType, readers, inFlight, latestImage>>
  /\ UNCHANGED serviceVars

handleDialogueChange(index, field, value) ==
  /\ timedDialogues' = [timedDialogues EXCEPT ![index][field] = value]
  /\ UNCHANGED <<actions, generatedJson, isLoading, error, imageBase64,
                 imageMimeType, readers, inFlight, latestImage>>
  /\ UNCHANGED serviceVars

\* The list is capped at MaxEntries entries.
addDialogue ==
  /\ Len(timedDialogues) < MaxEntries
  /\ timedDialogues' = Append(timedDialogues, emptyDialogue)
  /\ UNCHANGED <<actions, generatedJson, isLoading, error, imageBase64,
                 imageMimeType, readers, inFlight, latestImage>>
  /\ UNCHANGED serviceVars

removeDialogue(index) ==
  /\ IF Len(timedDialogues) > 1
       THEN timedDialogues' = without(timedDialogues, index)
       ELSE UNCHANGED timedDialogues
  /\ UNCHANGED <<actions, generatedJson, isLoading, error, imageBase64,
                 imageMimeType, readers, inFlight, latestImage>>
  /\ UNCHANGED serviceVars

\* The upload button is rendered in place of the preview and its remove
\* button while no image is held.
previewShown == truthy(imageBase64) /\ truthy(imageMimeType)

\* Up to the call of readAsDataURL; at most MaxReaders readers are pending.
handleImageChange(file) ==
  /\ IF file = noFile
       THEN UNCHANGED <<error, readers, latestImage>>
     ELSE IF file.type \notin validTypes
       THEN /\ error' = InvalidFileTypeMessage
            /\ UNCHANGED <<readers, latestImage>>
     ELSE /\ BagCardinality(readers) < MaxReaders
          /\ error' = <<>>
          /\ readers' = readers (+) SetToBag({file})
          /\ latestImage' = [kind |-> "select", file |-> file]
  /\ UNCHANGED <<actions, timedDialogues, generatedJson, isLoading,
                 imageBase64, imageMimeType, inFlight>>
  /\ UNCHANGED serviceVars

\* reader.onload of a pending reader of the file.
onload(file) ==
  /\ imageBase64' = splitSecond(readAsDataURL(file), ",")
  /\ imageMimeType' = string(file.type)
  /\ readers' = readers (-) SetToBag({file})
  /\ UNCHANGED <<actions, timedDialogues, generatedJson, isLoading, error,
                 inFlight, latestImage>>
  /\ UNCHANGED serviceVars

\* reader.onerror of a pending reader of the file.
onerror(file) ==
  /\ error' = FailedReadMessage
  /\ readers' = readers (-) SetToBag({file})
  /\ UNCHANGED <<actions, timedDialogues, generatedJson, isLoading,
                 imageBase64, imageMimeType, inFlight, latestImage>>
  /\ UNCHANGED serviceVars

handleRemoveImage ==
  /\ imageBase64' = null
  /\ imageMimeType' = null
  /\ latestImage' = [kind |-> "remove", file |-> noFile]
  /\ UNCHANGED <<actions, timedDialogues, generatedJson, isLoading, error,
                 readers, inFlight>>
  /\ UNCHANGED serviceVars

\* Faulty variant: the button stays enabled while a request is pending.
isGenerateDisabledNotLoading ==
  /\ \A i \in 1..Len(actions) : ~Truthy(trim(actions[i].description))
  /\ \A i \in 1..Len(timedDialogues) :
       ~Truthy(trim(timedDialogues[i].dialogueText))
  /\ ~truthy(imageBase64)

\* Faulty variant: the texts are tested without being trimmed.
isGenerateDisabledUntrimmed ==
  \/ /\ \A i \in 1..Len(actions) : ~Truthy(actions[i].description)
     /\ \A i \in 1..Len(timedDialogues) :
          ~Truthy(timedDialogues[i].dialogueText)
     /\ ~truthy(imageBase64)
  \/ isLoading

isGenerateDisabled ==
  \/ /\ \A i \in 1..Len(actions) : ~Truthy(trim(actions[i].description))
     /\ \A i \in 1..Len(timedDialogues) :
          ~Truthy(trim(timedDialogues[i].dialogueText))
     /\ ~truthy(imageBase64)
  \/ isLoading

\* The argument handleGenerate passes to generateVeoPrompt. The two selects
\* keep their initial value 'Automatic': the selects, the editing and the
\* copying of the result are left out of this model.
promptInput ==
  [actions |-> actions,
   timedDialogues |-> timedDialogues,
   image |-> IF truthy(imageBase64) /\ truthy(imageMimeType)
               THEN [defined |-> TRUE, data |-> imageBase64.value,
                     mimeType |-> imageMimeType.value]
               ELSE NoImage,
   cameraMovement |-> Automatic,
   tone |-> Automatic]

\* The promise generateVeoPrompt returns when it suspends or throws.
invoked(in) ==
  IF keyMissing(envKey) THEN rejectedWithError(MissingKeyMessage)
  ELSE IF inputMissing(in) THEN rejectedWithError(InputRequiredMessage)
  ELSE pending

\* handleGenerate up to its await. A promise rejected by the guards of
\* generateVeoPrompt is handled in the microtasks of the same event, before
\* any other handler runs. At most MaxInFlight invocations are suspended.
\* The request itself is the subject of generateVeoPrompt above; here only
\* the number of suspended invocations is kept.
handleGenerate ==
  /\ inFlight < MaxInFlight
  /\ generatedJson' = <<>>
  /\ LET p == invoked(promptInput) IN
       /\ IF p.state = "rejected"
            THEN /\ error' = handleGenerateCatch(p)
                 /\ isLoading' = FALSE
                 /\ UNCHANGED inFlight
            ELSE /\ error' = <<>>
                 /\ isLoading' = TRUE
                 /\ inFlight' = inFlight + 1
  /\ UNCHANGED <<actions, timedDialogues, imageBase64, imageMimeType, readers,
                 latestImage>>
  /\ UNCHANGED serviceVars

\* handleGenerate from its await on, when the promise of generateVeoPrompt
\* has settled as p: setGeneratedJson or the catch clause, then the finally
\* clause.
handleGenerateResumed(p) ==
  /\ IF p.state = "fulfilled"
       THEN generatedJson' = p.value /\ UNCHANGED error
       ELSE error' = handleGenerateCatch(p) /\ UNCHANGED generatedJson
  /\ isLoading' = FALSE
  /\ inFlight' = inFlight - 1
  /\ UNCHANGED <<actions, timedDialogues, imageBase64, imageMimeType, readers,
                 latestImage>>
  /\ UNCHANGED serviceVars

\* The events of the page.
ActionEdits == {[field |-> "description", value |-> v] : v \in Descriptions}
DialogueEdits ==
  {[field |-> "dialogueText", value |-> v] : v \in DialogueTexts}

\* One reply for each way the body of generateVeoPrompt ends: a response
\* that is returned (an object of one member: the page shows whatever text is
\* returned), one that is not JSON, one that JSON.parse rejects, an Error and
\* a rejection with another value.
PageReplies ==
  { textReply(objectText(<<"prompt">>)),
    textReply(<<"n", "o", "t", " ", "j", "s", "o", "n">>),
    textReply(<<"{", "prompt">>),
    errorReply(<<"fetch failed">>),
    otherReply }

\* The promise of generateVeoPrompt once generateContent has delivered one of
\* them: the rest of the body of generateVeoPrompt has run.
PageSettlements == {settle(tryBlock(r)) : r \in PageReplies}

\* The remove button of an entry is disabled while its list holds one
\* entry; the handlers are run on every list, the guard they carry included.
\* onChange is raised when the text of the field has changed.
typeAction ==
  \E i \in 1..Len(actions), e \in ActionEdits :
    e.value # actions[i][e.field] /\ handleActionChange(i, e.field, e.value)
callRemoveAction == \E i \in 1..Len(actions) : removeAction(i)
typeDialogue ==
  \E i \in 1..Len(timedDialogues), e \in DialogueEdits :
    /\ e.value # timedDialogues[i][e.field]
    /\ handleDialogueChange(i, e.field, e.value)
callRemoveDialogue == \E i \in 1..Len(timedDialogues) : removeDialogue(i)
chooseFile ==
  ~previewShown /\ \E file \in Files \cup {noFile} : handleImageChange(file)
readerLoaded == \E file \in BagToSet(readers) : onload(file)
readerFailed == \E file \in BagToSet(readers) : onerror(file)
clickRemoveImage == previewShown /\ handleRemoveImage
clickGenerate == ~isGenerateDisabled /\ handleGenerate
generateContentSettled ==
  inFlight > 0 /\ \E p \in PageSettlements : handleGenerateResumed(p)

NextApp ==
  \/ typeAction \/ addAction \/ callRemoveAction
  \/ typeDialogue \/ addDialogue \/ callRemoveDialogue
  \/ chooseFile \/ readerLoaded \/ readerFailed \/ clickRemoveImage
  \/ clickGenerate \/ generateContentSettled

SpecApp == Init /\ [][NextApp]_vars

\* The awaited generateContent call settles, once issued.
SpecAppFair == SpecApp /\ WF_vars(generateContentSettled)

(***************************************************************************)
(* Properties                                                              *)
(*                                                                         *)
(* The properties describe the inputs and the parts in their own terms:    *)
(* a text is non-blank when it holds a character other than white space,   *)
(* and a part is recognised by its payload or by the label it begins with. *)
(***************************************************************************)
NonBlank(s) == \E i \in 1..Len(s) : s[i] \notin {" ", "\n"}

HasPrefix(s, pre) == Len(s) >= Len(pre) /\ SubSeq(s, 1, Len(pre)) = pre

IsImagePart(p) == "inlineData" \in DOMAIN p
IsTextPart(p) == "text" \in DOMAIN p
IsBlock(p, label) == IsTextPart(p) /\ HasPrefix(p.text, label)

PartKind(p) ==
  IF IsImagePart(p) THEN "image"
  ELSE IF p.text = ImageCaption THEN "caption"
  ELSE IF IsBlock(p, ActionLabel) THEN "action"
  ELSE IF IsBlock(p, DialogueLabel) THEN "dialogue"
  ELSE IF IsBlock(p, CameraLabel) THEN "camera"
  ELSE IF IsBlock(p, ToneLabel) THEN "tone"
  ELSE "other"

PartKinds(parts) == [i \in 1..Len(parts) |-> PartKind(parts[i])]

SomeActionNonBlank(in) ==
  \E i \in 1..Len(in.actions) : NonBlank(in.actions[i].description)
SomeDialogueNonBlank(in) ==
  \E i \in 1..Len(in.timedDialogues) :
    NonBlank(in.timedDialogues[i].dialogueText)
PreferenceStated(value) == value \notin {<<>>, Automatic}

RequestIssued == requests # <<>>
Submitted == requests[1].parts

\* The kinds whose condition holds for the input, in the fixed order.
ExpectedKinds(in) ==
  SelectSeq(<<"image", "caption", "action", "dialogue", "camera", "tone">>,
            LAMBDA k :
              \/ k \in {"image", "caption"} /\ in.image.defined
              \/ k = "action" /\ SomeActionNonBlank(in)
              \/ k = "dialogue" /\ SomeDialogueNonBlank(in)
              \/ k = "camera" /\ PreferenceStated(in.cameraMovement)
              \/ k = "tone" /\ PreferenceStated(in.tone))

TwoBlockCase(in) ==
  /\ ~in.image.defined
  /\ in.cameraMovement = Automatic
  /\ in.tone = Automatic
  /\ Len(in.actions) = 1 /\ NonBlank(in.actions[1].description)
  /\ Len(in.timedDialogues) = 1
  /\ NonBlank(in.timedDialogues[1].dialogueText)

\* C1: the parts of every issued request are, in this order, the image bytes
\* and the image caption (when an image is given), the ACTION TIMELINE block
\* (when some action is non-blank), the DIALOGUE TIMELINE block (when some
\* dialogue is non-blank), the camera preference (when stated) and the tone
\* preference (when stated), and nothing else; the image part carries the
\* image given; with no image, both preferences "Automatic", one valid action
\* and one valid dialogue the parts are two text blocks, action then dialogue.
C1_PartsInFixedOrder ==
  RequestIssued =>
    /\ PartKinds(Submitted) = ExpectedKinds(input)
    /\ input.image.defined =>
         Submitted[1].inlineData =
           [mimeType |-> input.image.mimeType, data |-> input.image.data]
    /\ TwoBlockCase(input) =>
         /\ Len(Submitted) = 2
         /\ IsBlock(Submitted[1], ActionLabel)
         /\ IsBlock(Submitted[2], DialogueLabel)

\* C1 witness: a request was issued for the two-block case.
C1_Witness == RequestIssued /\ TwoBlockCase(input) /\ Len(Submitted) = 2

\* C2: an issued request holds an ACTION TIMELINE block exactly when some
\* action description is non-blank, and a DIALOGUE TIMELINE block exactly
\* when some dialogue text is non-blank, whatever the other timeline and the
\* image are; no block consists of its label alone.
C2_BlockIffValidEntry ==
  RequestIssued =>
    /\ (\E i \in 1..Len(Submitted) : IsBlock(Submitted[i], ActionLabel))
         <=> SomeActionNonBlank(input)
    /\ (\E i \in 1..Len(Submitted) : IsBlock(Submitted[i], DialogueLabel))
         <=> SomeDialogueNonBlank(input)
    /\ \A i \in 1..Len(Submitted) :
         IsTextPart(Submitted[i]) =>
           Submitted[i].text \notin {ActionLabel, DialogueLabel}

\* C2 witness: a request for an input whose actions are all whitespace (and
\* there is one) while a dialogue is valid and an image is given: no action
\* block, one dialogue block.
C2_Witness ==
  /\ RequestIssued
  /\ input.actions # <<>> /\ ~SomeActionNonBlank(input)
  /\ SomeDialogueNonBlank(input)
  /\ input.image.defined
  /\ \A i \in 1..Len(Submitted) : ~IsBlock(Submitted[i], ActionLabel)

\* The lines of a text: its pieces between line breaks.
LineBreaks(s) == {i \in 1..Len(s) : s[i] = "\n"}
LineCount(s) == Cardinality(LineBreaks(s)) + 1
LineOf(s, k) ==
  LET ends == LineBreaks(s) \cup {0, Len(s) + 1}
      Nth(n) == CHOOSE i \in ends : Cardinality({j \in ends : j < i}) = n
  IN SubSeq(s, Nth(k - 1) + 1, Nth(k) - 1)

\* A non-blank text without its leading and trailing white space.
Trimmed(s) ==
  LET solid == {i \in 1..Len(s) : s[i] \notin {" ", "\n"}}
      first == CHOOSE i \in solid : \A j \in solid : i <= j
      last == CHOOSE i \in solid : \A j \in solid : j <= i
  IN SubSeq(s, first, last)

OrElse(s, d) == IF s = <<>> THEN d ELSE s

ExpectedActionLine(a) ==
  <<"- ">> \o OrElse(a.startTime, <<"0">>) \o <<"EN DASH">>
    \o OrElse(a.endTime, <<"?">>) \o <<" sec: ">> \o Trimmed(a.description)

ExpectedDialogueLine(d) ==
  <<"- ">> \o OrElse(d.startTime, <<"0">>) \o <<"EN DASH">>
    \o OrElse(d.endTime, <<"?">>) \o <<" sec: ">>
    \o <<"\"">> \o Trimmed(d.dialogueText) \o <<"\"">>

BlockBody(label) ==
  LET p == CHOOSE q \in {Submitted[i] : i \in 1..Len(Submitted)} :
             IsBlock(q, label)
  IN SubSeq(p.text, Len(label) + 1, Len(p.text))

\* The text has one line per expected line, and these lines in order.
LinesAre(body, expected) ==
  /\ LineCount(body) = Len(expected)
  /\ \A k \in 1..Len(expected) : LineOf(body, k) = expected[k]

NonBlankActions(in) ==
  SelectSeq(in.actions, LAMBDA a : NonBlank(a.description))
NonBlankDialogues(in) ==
  SelectSeq(in.timedDialogues, LAMBDA d : NonBlank(d.dialogueText))

\* C3: for a timeline with a non-blank entry, the rendered timeline has
\* exactly one line per non-blank entry, in input order, the line of an entry
\* being "- {start}EN DASH{end} sec: {trimmed text}" with "0" for an empty
\* start and "?" for an empty end (the text of a dialogue within quotation
\* marks), whatever strings the start, the end and the text are.
C3_OneLinePerEntry ==
  RequestIssued =>
    /\ SomeActionNonBlank(input) =>
         LinesAre(
           BlockBody(ActionLabel),
           [k \in 1..Len(NonBlankActions(input)) |->
              ExpectedActionLine(NonBlankActions(input)[k])])
    /\ SomeDialogueNonBlank(input) =>
         LinesAre(
           BlockBody(DialogueLabel),
           [k \in 1..Len(NonBlankDialogues(input)) |->
              ExpectedDialogueLine(NonBlankDialogues(input)[k])])

PreferenceBlocks(label) ==
  {i \in 1..Len(Submitted) : IsBlock(Submitted[i], label)}

PreferenceCarried(value, label) ==
  IF value \in {<<>>, Automatic}
    THEN PreferenceBlocks(label) = {}
    ELSE /\ Cardinality(PreferenceBlocks(label)) = 1
         /\ \A i \in PreferenceBlocks(label) :
              Submitted[i].text = label \o value

\* C4: an issued request has no camera preference block when cameraMovement
\* is "Automatic" or empty and no tone preference block when tone is
\* "Automatic" or empty; for every other value it has one such block, whose
\* text is the fixed label followed by the value unchanged.
C4_PreferenceVerbatim ==
  RequestIssued =>
    /\ PreferenceCarried(input.cameraMovement, CameraLabel)
    /\ PreferenceCarried(input.tone, ToneLabel)

\* C4 witness: a request whose camera movement " Automatic" (a leading space)
\* is carried as it is while the empty tone is omitted.
C4_Witness ==
  /\ RequestIssued
  /\ input.cameraMovement = <<" ">> \o Automatic
  /\ input.tone = <<>>
  /\ \E i \in 1..Len(Submitted) :
       Submitted[i] = [text |-> CameraLabel \o <<" ">> \o Automatic]
  /\ PreferenceBlocks(ToneLabel) = {}

NoCredential == ~envKey.set \/ envKey.value = <<>>
Invoked == pc # "idle"
Failed(message) ==
  promise = [state |-> "rejected", value |-> message, isError |-> TRUE]

\* C5: with no credential configured (API_KEY unset or empty) every
\* invocation, whatever its input, fails with the configuration error and
\* issues no request.
C5_NoCredentialNoRequest ==
  NoCredential /\ Invoked =>
    /\ pc = "settled"
    /\ Failed(MissingKeyMessage)
    /\ requests = <<>>

\* C5 witness: an invocation with a valid action and an image has failed with
\* the configuration error while API_KEY is the empty string.
C5_Witness ==
  /\ envKey = EmptyKey
  /\ pc = "settled"
  /\ SomeActionNonBlank(input) /\ input.image.defined
  /\ Failed(MissingKeyMessage)

NothingToSend(in) ==
  /\ ~SomeActionNonBlank(in)
  /\ ~SomeDialogueNonBlank(in)
  /\ ~in.image.defined

\* C6 as stated: an invocation whose action and dialogue texts are all empty
\* or whitespace and that has no image fails with the input error and issues
\* no request.
C6_EmptyInputAlwaysInputError ==
  Invoked /\ NothingToSend(input) =>
    /\ Failed(InputRequiredMessage)
    /\ requests = <<>>

\* C6 as amended: an invocation whose action and dialogue texts are all empty
\* or whitespace and that has no image issues no request and fails: with the
\* input error when a credential is configured, with the configuration error
\* when none is (the key is checked before the input).
C6_EmptyInputRejected ==
  Invoked /\ NothingToSend(input) =>
    /\ pc = "settled"
    /\ requests = <<>>
    /\ IF NoCredential
         THEN Failed(MissingKeyMessage)
         ELSE Failed(InputRequiredMessage)

\* C6 witness: with a credential, an invocation with a whitespace-only action
\* and an empty dialogue has failed with the input error.
C6_Witness ==
  /\ ~NoCredential
  /\ pc = "settled"
  /\ input.actions # <<>> /\ input.timedDialogues # <<>>
  /\ NothingToSend(input)
  /\ Failed(InputRequiredMessage)

PreconditionsHold(in) == ~NoCredential /\ ~NothingToSend(in)

InvalidResponse ==
  /\ reply.kind = "text"
  /\ \/ reply.text = <<>>
     \/ reply.text[1] \notin {"{", "["}
     \/ ~JSONparse(reply.text).ok

\* C7: an invocation never issues more than one request, one whose
\* preconditions hold issues exactly one, and after a transport failure or an
\* invalid response it has ended in an error with that single request.
C7_SingleRequest ==
  /\ Len(requests) <= 1
  /\ Invoked /\ PreconditionsHold(input) => Len(requests) = 1
  /\ Invoked /\ ~PreconditionsHold(input) => requests = <<>>
  /\ (reply.kind \in {"error", "other"} \/ InvalidResponse) =>
       /\ pc = "settled"
       /\ promise.state = "rejected"
       /\ Len(requests) = 1

\* C7 witness: the call failed in transport and the invocation has ended in
\* an error after its one request.
C7_Witness ==
  /\ pc = "settled"
  /\ reply.kind = "error"
  /\ promise.state = "rejected"
  /\ Len(requests) = 1

Responded == pc = "settled" /\ reply.kind = "text"
OpensLikeJson(text) == text # <<>> /\ text[1] \in {"{", "["}
SchemaViolation == FailedPrefix \o InvalidJsonMessage

\* C8: when the response text does not start with "{" or "[", the promise is
\* rejected with "Failed to generate prompt: The API did not return a valid
\* JSON format." and nothing was handed to JSON.parse.
C8_NonJsonRejectedUnparsed ==
  Responded /\ ~OpensLikeJson(reply.text) =>
    /\ promise.state = "rejected"
    /\ promise.value = SchemaViolation
    /\ parsed = <<>>

\* C8 witness: the response "not json" was rejected with the schema-violation
\* message and never parsed.
C8_Witness ==
  /\ Responded
  /\ reply.text = <<"n", "o", "t", " ", "j", "s", "o", "n">>
  /\ promise.state = "rejected"
  /\ promise.value = SchemaViolation
  /\ parsed = <<>>

LacksRequiredField(text) ==
  LET value == JSONparse(text)
  IN /\ value.ok
     /\ \E k \in 1..Len(requiredFields) :
          \A i \in 1..Len(value.items) : value.items[i] # requiredFields[k]

\* C9: a response that is valid JSON but lacks one of the 18 required fields
\* is rejected: the promise is never fulfilled for such a response.
C9_MissingFieldRejected ==
  Responded /\ LacksRequiredField(reply.text) => promise.state = "rejected"

MalformedJson(text) == OpensLikeJson(text) /\ ~JSONparse(text).ok

\* C10 as stated: a response text that starts with "{" or "[" but does not
\* parse is rejected with "Failed to generate prompt: The API did not return
\* a valid JSON format.", like a text that is no JSON at all.
C10_MalformedSameMessage ==
  Responded /\ MalformedJson(reply.text) =>
    /\ promise.state = "rejected"
    /\ promise.value = SchemaViolation

\* C10 as amended: a response text that starts with "{" or "[" but does not
\* parse is handed to JSON.parse and rejected with "Failed to generate
\* prompt: " followed by the message of the SyntaxError JSON.parse threw,
\* which is not the schema-violation message.
C10_MalformedParserMessage ==
  Responded /\ MalformedJson(reply.text) =>
    /\ promise.state = "rejected"
    /\ \E m \in {UnexpectedEndMessage, UnexpectedTokenMessage} :
         promise.value = FailedPrefix \o m
    /\ promise.value # SchemaViolation
    /\ parsed = <<reply.text>>

\* C10 witness: the truncated object {"prompt":... was parsed and rejected
\* with the parser's "Unexpected end of JSON input" under the prefix.
C10_Witness ==
  /\ Responded
  /\ reply.text = <<"{", "prompt">>
  /\ promise.state = "rejected"
  /\ promise.value = FailedPrefix \o UnexpectedEndMessage
  /\ parsed = <<reply.text>>

\* What handleGenerate displays for the rejected promise of the invocation.
Displayed == handleGenerateCatch(promise)
Rejected == pc = "settled" /\ promise.state = "rejected"
TransportFailure == Rejected /\ reply.kind = "error"

\* C11: whenever generateVeoPrompt fails, the message its rejection carries
\* is the message handleGenerate displays; in particular, when the outbound
\* call fails with an Error of message m, "Failed to generate prompt: "
\* followed by m is displayed.
C11_FailureMessageDisplayed ==
  /\ Rejected => Displayed = promise.value
  /\ TransportFailure => Displayed = FailedPrefix \o reply.message

\* C12: the request an invocation issues carries the credential that is in
\* process.env.API_KEY when the invocation is made.
C12_RequestUsesCurrentKey ==
  [][(pc = "idle" /\ pc' = "awaiting") => requests'[1].apiKey = envKey]_vars

\* C13: through every sequence of add, remove and edit operations the action
\* list and the dialogue list hold at least one entry each, and a remove on a
\* list of one entry leaves that list as it is.
C13_ListsKeepAnEntry ==
  /\ [](Len(actions) >= 1 /\ Len(timedDialogues) >= 1)
  /\ [][(Len(actions) = 1 /\ callRemoveAction) => actions' = actions]_vars
  /\ [][(Len(timedDialogues) = 1 /\ callRemoveDialogue)
          => timedDialogues' = timedDialogues]_vars

\* The lists have grown, been edited, and one of them is back at one entry.
C13_Witness ==
  /\ Len(actions) = 1
  /\ actions[1].description = <<"g", "o">>
  /\ Len(timedDialogues) = MaxEntries
  /\ timedDialogues[MaxEntries].dialogueText = <<"y", "a", " ">>

NoEntryNonBlank ==
  /\ \A i \in 1..Len(actions) : ~NonBlank(actions[i].description)
  /\ \A i \in 1..Len(timedDialogues) :
       ~NonBlank(timedDialogues[i].dialogueText)

\* C14: in every form state in which the Generate button is enabled, the
\* input handleGenerate passes has a non-blank action, a non-blank dialogue
\* or an image (the image being passed whenever only the held image enables
\* the button), and no call started from the page fails with the input error.
C14_ButtonEnforcesInput ==
  /\ ~isGenerateDisabled => ~NothingToSend(promptInput)
  /\ (~isGenerateDisabled /\ NoEntryNonBlank) => promptInput.image.defined
  /\ error # InputRequiredMessage

\* A call is pending that only the held image made possible.
C14_Witness ==
  /\ isLoading /\ inFlight = 1
  /\ NoEntryNonBlank
  /\ promptInput.image.defined

\* C15: at most one call started by the form is pending; isLoading is true
\* exactly while one is pending, and the Generate button is disabled
\* whenever isLoading is true.
C15_OneRequestInFlight ==
  /\ inFlight <= 1
  /\ isLoading <=> inFlight = 1
  /\ isLoading => isGenerateDisabled

\* A call is pending and the form still holds what would enable the button.
C15_Witness ==
  /\ isLoading /\ inFlight = 1
  /\ ~NothingToSend(promptInput)
  /\ ~keyMissing(envKey)

Success == generatedJson' # <<>> /\ error' = <<>>
Failure == generatedJson' = <<>> /\ error' # <<>>

\* C16: every generate attempt completes, with isLoading false, and at its
\* completion, whatever form events came in between, a success leaves a
\* result and no error, a failure leaves an error and no result.
C16_CompletesWithResultOrError ==
  /\ isLoading ~> ~isLoading
  /\ [][\A p \in PageSettlements :
         handleGenerateResumed(p) =>
           /\ ~isLoading'
           /\ IF p.state = "fulfilled" THEN Success ELSE Failure]_vars
  /\ [][(clickGenerate /\ invoked(promptInput).state = "rejected")
          => (~isLoading' /\ Failure)]_vars

\* The image a completed read of the file installs.
Installed(file) ==
  /\ imageBase64 = string(file.data)
  /\ imageMimeType = string(file.type)
NoImageHeld == imageBase64 = null /\ imageMimeType = null

\* C17: the image held is the one of the user's latest image action: none
\* after a removal, none or the image of the file selected last after a
\* selection; data and mime type are always those of one file.
C17_ImageOfLatestAction ==
  /\ latestImage.kind = "none" => NoImageHeld
  /\ latestImage.kind = "remove" => NoImageHeld
  /\ latestImage.kind = "select" =>
       NoImageHeld \/ Installed(latestImage.file)
  /\ NoImageHeld \/ \E file \in Files : Installed(file)

====
